---- MODULE Spec2Model ----
(***************************************************************************)
(* A model of src/app/hazard_options.py: the option extractors, the        *)
(* indicator expander, the cross-link merger (update_options) and the      *)
(* catalog driver (create_menu_options).                                   *)
(*                                                                         *)
(* Python strings are sequences of one-character strings, so that          *)
(* str.replace, str.format, the "in" substring test and slicing are        *)
(* computed rather than assumed.  A Python dict with insertion order (the  *)
(* params mapping) is a sequence of <<key, value>> pairs.  An option       *)
(* record (a Python dict with string keys) is a TLA+ function with a       *)
(* string domain, so a missing key is a key outside DOMAIN.                *)
(* A call that can raise returns [err |-> <exception name or "">,          *)
(* val |-> <result>].                                                      *)
(***************************************************************************)
EXTENDS Naturals, Sequences, FiniteSets, TLC

VARIABLES
    pc,                     \* position of create_menu_options
    item_links,             \* item references still to be fetched
    hazard_types,           \* the four accumulator lists of create_menu_options
    indicator_options,
    climate_model_options,
    scenario_options,
    processed,              \* history: the documents merged so far, in order
    last,                   \* history: what the last loop iteration extracted
    fetch_failed,           \* history: a fetch has failed in this run
    data,                   \* the document handed to get_indicator_options
    out                     \* what get_indicator_options returned for data

vars == <<pc, item_links, hazard_types, indicator_options, climate_model_options,
          scenario_options, processed, last, fetch_failed, data, out>>

-----------------------------------------------------------------------------
(* Bounds *)

\* item links in the root catalog
MaxDocs == 2

-----------------------------------------------------------------------------
(* Python values *)

Ok(v) == [err |-> "", val |-> v]

Raise(e) == [err |-> e, val |-> <<>>]

\* the element of a one-element set: Only({ e(x) : x \in {v} }) is e with x
\* bound to the value of v
Only(S) == CHOOSE x \in S : TRUE

\* str.startswith
StartsWith(s, p) == Len(s) >= Len(p) /\ SubSeq(s, 1, Len(p)) = p

\* the "sub in s" test on strings
Contains(s, sub) ==
    \E i \in 0..Len(s) : i + Len(sub) <= Len(s) /\ SubSeq(s, i + 1, i + Len(sub)) = sub

\* str.replace(old, new): every non-overlapping occurrence, left to right
RECURSIVE Replace(_, _, _)
Replace(s, old, new) ==
    IF Len(s) < Len(old) \/ old = <<>> THEN s
    ELSE IF SubSeq(s, 1, Len(old)) = old
         THEN new \o Replace(SubSeq(s, Len(old) + 1, Len(s)), old, new)
         ELSE <<s[1]>> \o Replace(Tail(s), old, new)

\* dict(zip(keys, values)) lookup: d is a sequence of <<key, value>> pairs
HasKey(d, k) == \E i \in 1..Len(d) : d[i][1] = k

Lookup(d, k) == d[CHOOSE i \in 1..Len(d) : d[i][1] = k][2]

\* position of the first "}" of s, 0 if there is none
CloseBrace(s) ==
    IF \E j \in 1..Len(s) : s[j] = "}"
    THEN CHOOSE j \in 1..Len(s) : s[j] = "}" /\ \A k \in 1..(j - 1) : s[k] /= "}"
    ELSE 0

\* CustomDict.__missing__
CustomDictMissing(key) == <<"{">> \o key \o <<"}">>

\* str.format(**d) (custom = FALSE) and str.format_map(CustomDict(**d))
\* (custom = TRUE) on templates of literal text, {name} fields and the
\* escapes {{ and }}.  A field name absent from d raises KeyError under
\* format and is answered by CustomDict.__missing__ under format_map.
RECURSIVE FormatWith(_, _, _)
FormatWith(t, d, custom) ==
    IF t = <<>> THEN Ok(<<>>)
    ELSE IF t[1] = "{" /\ Len(t) >= 2 /\ t[2] = "{"
    THEN LET r == FormatWith(SubSeq(t, 3, Len(t)), d, custom)
         IN  IF r.err /= "" THEN r ELSE Ok(<<"{">> \o r.val)
    ELSE IF t[1] = "}" /\ Len(t) >= 2 /\ t[2] = "}"
    THEN LET r == FormatWith(SubSeq(t, 3, Len(t)), d, custom)
         IN  IF r.err /= "" THEN r ELSE Ok(<<"}">> \o r.val)
    ELSE IF t[1] = "}" THEN Raise("ValueError")
    ELSE IF t[1] = "{"
    THEN LET j == CloseBrace(t)
         IN  IF j = 0 THEN Raise("ValueError")
             ELSE LET name == SubSeq(t, 2, j - 1)
                      r == FormatWith(SubSeq(t, j + 1, Len(t)), d, custom)
                  IN  IF name = <<>> THEN Raise("IndexError")
                      ELSE IF HasKey(d, name)
                      THEN IF r.err /= "" THEN r ELSE Ok(Lookup(d, name) \o r.val)
                      ELSE IF custom
                      THEN IF r.err /= "" THEN r
                           ELSE Ok(CustomDictMissing(name) \o r.val)
                      ELSE Raise("KeyError")
    ELSE LET r == FormatWith(Tail(t), d, custom)
         IN  IF r.err /= "" THEN r ELSE Ok(<<t[1]>> \o r.val)

Format(t, d) == FormatWith(t, d, FALSE)

FormatMap(t, d) == FormatWith(t, d, TRUE)

-----------------------------------------------------------------------------
(* dedupe_dict *)

InSeq(x, s) == \E i \in 1..Len(s) : s[i] = x

RECURSIVE DedupeFrom(_, _)
DedupeFrom(dict_list, unique) ==
    IF dict_list = <<>> THEN unique
    ELSE DedupeFrom(Tail(dict_list),
                    IF InSeq(Head(dict_list), unique) THEN unique
                    ELSE Append(unique, Head(dict_list)))

\* faulty variant: nothing is removed
DedupeNone(dict_list) == dict_list

dedupe_dict(dict_list) == DedupeFrom(dict_list, <<>>)

-----------------------------------------------------------------------------
(* Label formatting *)

UpperCase == {"A", "B", "C", "F", "H", "M", "T", "W", "X"}

\* re.sub(r"(?<!^)(?=[A-Z])", " ", s): a space before every upper-case
\* letter that is not the first character
RECURSIVE CamelFrom(_, _)
CamelFrom(s, i) ==
    IF i > Len(s) THEN <<>>
    ELSE (IF i > 1 /\ s[i] \in UpperCase THEN <<" ", s[i]>> ELSE <<s[i]>>)
         \o CamelFrom(s, i + 1)

CamelSplit(s) == CamelFrom(s, 1)

get_hazard_types(d) ==
    dedupe_dict(<<[label |-> CamelSplit(d.hazard_type), value |-> d.hazard_type]>>)

get_climate_model_options(params) ==
    IF HasKey(params, <<"g", "c", "m">>)
    THEN LET gcms == Lookup(params, <<"g", "c", "m">>)
         IN  [i \in 1..Len(gcms) |->
                 [value |-> gcms[i],
                  label |-> <<"C", "M", "I", "P", "6", ":", " ">> \o gcms[i]]]
    ELSE <<>>

\* the formatted_id of one scenario id
ScenarioLabel(id) ==
    IF StartsWith(id, <<"s", "s", "p">>) /\ Len(id) = 6
    THEN <<"S", "S", "P", id[4], "-", id[5], ".">> \o SubSeq(id, 6, Len(id))
    ELSE IF StartsWith(id, <<"r", "c", "p">>)
    THEN <<"R", "C", "P", "-">> \o Replace(SubSeq(id, 4, Len(id)), <<"p">>, <<".">>)
    ELSE id

get_scenario_options(scenarios) ==
    dedupe_dict([i \in 1..Len(scenarios) |->
                    [label |-> ScenarioLabel(scenarios[i].id),
                     value |-> scenarios[i].id,
                     year_options |-> scenarios[i].years]])

-----------------------------------------------------------------------------
(* The indicator expander *)

\* itertools.product(*lists): row-major, the first list varies slowest
RECURSIVE Product(_)
RECURSIVE ProductRow(_, _, _)
ProductRow(vals, rest, i) ==
    IF i > Len(vals) THEN <<>>
    ELSE [k \in 1..Len(rest) |-> <<vals[i]>> \o rest[k]] \o ProductRow(vals, rest, i + 1)

Product(lists) ==
    IF lists = <<>> THEN << <<>> >>
    ELSE ProductRow(Head(lists), Product(Tail(lists)), 1)

ParamValues(params) == [i \in 1..Len(params) |-> params[i][2]]

\* dict(zip(params.keys(), values))
ParamDict(params, values) == [i \in 1..Len(params) |-> <<params[i][1], values[i]>>]

\* one iteration of "for key in param_dict.keys()": the display_name it assigns
DisplayNameForKey(props, param_dict, key) ==
    IF ~Contains(props.indicator_id, key)
    THEN Format(Replace(props.display_name, CustomDictMissing(key), <<>>), param_dict)
    ELSE Format(props.display_name, param_dict)

\* the whole "for key" loop from key number i on: the first iteration that
\* raises ends it, otherwise the last iteration's assignments stand
RECURSIVE KeyLoop(_, _, _, _)
KeyLoop(props, param_dict, i, acc) ==
    IF i > Len(param_dict) THEN acc
    ELSE LET dn == DisplayNameForKey(props, param_dict, param_dict[i][1])
             p == FormatMap(props.path, param_dict)
         IN  IF dn.err /= "" THEN dn
             ELSE IF p.err /= "" THEN p
             ELSE KeyLoop(props, param_dict, i + 1,
                          Ok([display_name |-> dn.val, path |-> p.val]))

\* display_name and path of one combination
DisplayAndPath(props, param_dict) ==
    KeyLoop(props, param_dict, 1,
            Ok([display_name |-> props.display_name, path |-> props.path]))

\* faulty variant: only "unknown" suppresses the model gcm
ModelSuffixOneSentinel(props) ==
    (IF props.indicator_model_id /= <<>>
     THEN <<"_">> \o Replace(props.indicator_model_id, <<"/">>, <<"_">>)
     ELSE <<>>)
    \o
    (IF props.indicator_model_gcm /= <<"u", "n", "k", "n", "o", "w", "n">>
     THEN <<"_">> \o props.indicator_model_gcm
     ELSE <<>>)

\* the suffixes appended to the formatted indicator_id
ModelSuffix(props) ==
    (IF props.indicator_model_id /= <<>>
     THEN <<"_">> \o Replace(props.indicator_model_id, <<"/">>, <<"_">>)
     ELSE <<>>)
    \o
    (IF props.indicator_model_gcm /= <<"u", "n", "k", "n", "o", "w", "n">>
        /\ props.indicator_model_gcm /= <<"{", "g", "c", "m", "}">>
     THEN <<"_">> \o props.indicator_model_gcm
     ELSE <<>>)

IndicatorId(props, param_dict) ==
    LET f == Format(Replace(props.indicator_id, <<"/">>, <<"_">>), param_dict)
    IN  IF f.err /= "" THEN f ELSE Ok(f.val \o ModelSuffix(props))

\* the body of "for values in param_values" for one combination
IndicatorRecord(props, param_dict) ==
    LET dp == DisplayAndPath(props, param_dict)
        id == IndicatorId(props, param_dict)
    IN  IF dp.err /= "" THEN dp
        ELSE IF id.err /= "" THEN id
        ELSE Ok([label |-> dp.val.display_name, value |-> id.val, path |-> dp.val.path])

\* the records of all combinations, before dedupe_dict
RECURSIVE ExpandFrom(_, _, _)
ExpandFrom(d, param_values, i) ==
    IF i > Len(param_values) THEN Ok(<<>>)
    ELSE LET r == IndicatorRecord(d, ParamDict(d.params, param_values[i]))
             rest == ExpandFrom(d, param_values, i + 1)
         IN  IF r.err /= "" THEN r
             ELSE IF rest.err /= "" THEN rest
             ELSE Ok(<<r.val>> \o rest.val)

get_indicator_options(d) ==
    LET all == ExpandFrom(d, Product(ParamValues(d.params)), 1)
    IN  IF all.err /= "" THEN all ELSE Ok(dedupe_dict(all.val))

-----------------------------------------------------------------------------
(* Documents handed to the indicator expander *)

gcm == <<"g", "c", "m">>
rcp == <<"r", "c", "p">>
unknown == <<"u", "n", "k", "n", "o", "w", "n">>

ExpandParams ==
    { <<>>,
      << <<gcm, << <<"A">>, <<"B">> >> >> >>,
      << <<gcm, << <<"A">>, <<"A">> >> >> >>,
      << <<gcm, << <<"A", "/", "B">> >> >> >>,
      << <<gcm, << <<"A">>, <<"B">> >> >>, <<rcp, << <<"4">>, <<"8">> >> >> >>,
      << <<rcp, << <<"4">>, <<"8">> >> >>, <<gcm, << <<"A">>, <<"B">> >> >> >> }

ExpandDisplayNames ==
    { <<"T">>,
      <<"T", "{", "g", "c", "m", "}">>,
      <<"T", "{", "g", "c", "m", "}", "{", "r", "c", "p", "}">>,
      <<"T", "{", "x", "}">> }

ExpandIndicatorIds ==
    { <<"h", "/", "i">>,
      <<"h", "_", "{", "g", "c", "m", "}">>,
      <<"h", "{", "g", "c", "m", "}", "{", "r", "c", "p", "}">>,
      <<"h", "{", "x", "}">> }

ExpandPaths ==
    { <<"p">>,
      <<"p", "/", "{", "g", "c", "m", "}">>,
      <<"p", "{", "x", "}">> }

ExpandModelIds == { <<>>, <<"m", "/", "X">> }

ExpandModelGcms == { unknown, <<"{", "g", "c", "m", "}">>, <<"A">> }

DocOf(ht, ps, sc, dn, id, pa, mi, mg) ==
    [hazard_type |-> ht, params |-> ps, scenarios |-> sc, display_name |-> dn,
     indicator_id |-> id, path |-> pa, indicator_model_id |-> mi,
     indicator_model_gcm |-> mg]

CanESM5 == <<"C", "a", "n", "E", "S", "M", "5">>

\* indicator_id heat_{gcm}, model id modelX, model gcm CanESM5, gcm CanESM5
ExampleDoc ==
    DocOf(<<"H">>, << <<gcm, <<CanESM5>> >> >>, <<>>, <<"T">>,
          <<"h", "e", "a", "t", "_", "{", "g", "c", "m", "}">>, <<"p">>,
          <<"m", "o", "d", "e", "l", "X">>, CanESM5)

ExpandDocs ==
    { DocOf(<<"H">>, ps, <<>>, dn, id, pa, mi, mg) :
        ps \in ExpandParams, dn \in ExpandDisplayNames, id \in ExpandIndicatorIds,
        pa \in ExpandPaths, mi \in ExpandModelIds, mg \in ExpandModelGcms }
    \cup {ExampleDoc}

NoDoc == DocOf(<<>>, <<>>, <<>>, <<>>, <<>>, <<>>, <<>>, unknown)

NotRun == [err |-> "not run", val |-> <<>>]

-----------------------------------------------------------------------------
(* update_options *)

\* [option["value"] for option in options_list]
Values(options_list) == [i \in 1..Len(options_list) |-> options_list[i].value]

\* [v for v in values if v not in present]: the filter reads the array as
\* it was before the += that appends the result
RECURSIVE NotIn(_, _)
NotIn(values, present) ==
    IF values = <<>> THEN <<>>
    ELSE (IF InSeq(Head(values), present) THEN <<>> ELSE <<Head(values)>>)
         \o NotIn(Tail(values), present)

\* faulty variant: = in place of +=
ExtendLinkAssign(main_item, option) ==
    [main_item EXCEPT ![option.name] = NotIn(Values(option.list), @)]

\* main_item[options_name] += [...] for one entry of options_dicts
ExtendLink(main_item, option) ==
    [main_item EXCEPT ![option.name] = @ \o NotIn(Values(option.list), @)]

\* the "for option in options_dicts" loop of the branch that found the label,
\* from entry k on; main_item[options_name] raises KeyError when the record
\* has no such key, and keeps what earlier entries appended
RECURSIVE UpdateFound(_, _, _)
UpdateFound(main_item, options_dicts, k) ==
    IF k > Len(options_dicts) THEN Ok(main_item)
    ELSE IF options_dicts[k].list = <<>>
    THEN UpdateFound(main_item, options_dicts, k + 1)
    ELSE IF options_dicts[k].name \notin DOMAIN main_item
    THEN [err |-> "KeyError", val |-> main_item]
    ELSE UpdateFound(ExtendLink(main_item, options_dicts[k]), options_dicts, k + 1)

\* single_item[options_name] = [...] for one entry of options_dicts
SetLink(single_item, option) ==
    (option.name :> Values(option.list)) @@ single_item

\* the "for option in options_dicts" loop of the for-else branch
RECURSIVE InitLinks(_, _, _)
InitLinks(single_item, options_dicts, k) ==
    IF k > Len(options_dicts) THEN single_item
    ELSE IF options_dicts[k].list = <<>>
    THEN InitLinks(single_item, options_dicts, k + 1)
    ELSE InitLinks(SetLink(single_item, options_dicts[k]), options_dicts, k + 1)

\* faulty variant: records are matched on their value
MatchKeyValue(item) == item.value

\* the key update_options matches records on
MatchKey(item) == item.label

\* index of the first record of main_list that matches single_item, 0 if none
FindMatch(main_list, single_item) ==
    IF \E i \in 1..Len(main_list) : MatchKey(main_list[i]) = MatchKey(single_item)
    THEN CHOOSE i \in 1..Len(main_list) :
            /\ MatchKey(main_list[i]) = MatchKey(single_item)
            /\ \A j \in 1..(i - 1) : MatchKey(main_list[j]) /= MatchKey(single_item)
    ELSE 0

\* update_options from record number i of single_list on; a raise leaves
\* main_list as mutated so far
RECURSIVE UpdateFrom(_, _, _, _)
UpdateFrom(single_list, main_list, options_dicts, i) ==
    IF i > Len(single_list) THEN Ok(main_list)
    ELSE LET single_item == single_list[i]
             m == FindMatch(main_list, single_item)
         IN  IF m /= 0
             THEN Only({ IF r.err /= ""
                         THEN [err |-> r.err, val |-> [main_list EXCEPT ![m] = r.val]]
                         ELSE UpdateFrom(single_list, [main_list EXCEPT ![m] = r.val],
                                         options_dicts, i + 1) :
                         r \in {UpdateFound(main_list[m], options_dicts, 1)} })
             ELSE UpdateFrom(single_list,
                             Append(main_list, InitLinks(single_item, options_dicts, 1)),
                             options_dicts, i + 1)

update_options(single_list, main_list, options_dicts) ==
    UpdateFrom(single_list, main_list, options_dicts, 1)

-----------------------------------------------------------------------------
(* get_menu_items_from_file and the body of the loop of create_menu_options *)

\* x["key"] on a fetched value: a dict answers, False raises TypeError
GetItem(x) == IF x.type = "dict" THEN Ok(x.v) ELSE Raise("TypeError")

get_menu_items_from_file(d) ==
    Only({ IF ind.err /= "" THEN ind
           ELSE Ok([indicator_options |-> ind.val,
                    climate_model_options |-> get_climate_model_options(d.params),
                    scenario_options |-> get_scenario_options(d.scenarios),
                    hazard_types |-> get_hazard_types(d)]) :
           ind \in {get_indicator_options(d)} })

Lists(h, i, c, s) ==
    [hazard_types |-> h, indicator_options |-> i,
     climate_model_options |-> c, scenario_options |-> s]

\* the four update_options calls for one document, in the order of the code
MergeCalls(single) ==
    << [main |-> "hazard_types", single_list |-> single.hazard_types,
        options_dicts |->
            << [name |-> "indicator_options", list |-> single.indicator_options] >>],
       [main |-> "indicator_options", single_list |-> single.indicator_options,
        options_dicts |->
            << [name |-> "climate_model_options",
                list |-> single.climate_model_options],
               [name |-> "scenario_options", list |-> single.scenario_options] >>],
       [main |-> "climate_model_options",
        single_list |-> single.climate_model_options,
        options_dicts |->
            << [name |-> "scenario_options", list |-> single.scenario_options] >>],
       [main |-> "scenario_options", single_list |-> single.scenario_options,
        options_dicts |-> <<>>] >>

\* the calls from number k on; a call that raises ends the step with the
\* lists as mutated so far
RECURSIVE MergeFrom(_, _, _)
MergeFrom(acc, calls, k) ==
    IF k > Len(calls) THEN Ok(acc)
    ELSE Only({ IF r.err /= ""
                THEN [err |-> r.err, val |-> [acc EXCEPT ![calls[k].main] = r.val]]
                ELSE MergeFrom([acc EXCEPT ![calls[k].main] = r.val], calls, k + 1) :
                r \in {update_options(calls[k].single_list, acc[calls[k].main],
                                      calls[k].options_dicts)} })

MergeStep(acc, single) == MergeFrom(acc, MergeCalls(single), 1)

-----------------------------------------------------------------------------
(* download_from_s3 and get_item_links *)

PyDict(v) == [type |-> "dict", v |-> v]

PyFalse == [type |-> "bool", v |-> FALSE]

\* what the object store does with one get_object and json.loads
FetchOutcomes == {"ok", "NoCredentialsError", "ClientError", "JSONDecodeError"}

\* download_from_s3: the two caught exceptions return False, a body that is
\* not JSON raises out of the function
download_from_s3(outcome, content) ==
    IF outcome = "ok" THEN Ok(PyDict(content))
    ELSE IF outcome \in {"NoCredentialsError", "ClientError"} THEN Ok(PyFalse)
    ELSE Raise(outcome)

\* the links of a root catalog with n items (after the self and root links)
CatalogOf(n) ==
    [links |-> << [rel |-> "self", href |-> 0], [rel |-> "root", href |-> 0] >>
               \o [k \in 1..n |-> [rel |-> "item", href |-> k]]]

Catalogs == { CatalogOf(n) : n \in 0..MaxDocs }

RECURSIVE ItemHrefs(_)
ItemHrefs(links) ==
    IF links = <<>> THEN <<>>
    ELSE (IF Head(links).rel = "item" THEN <<Head(links).href>> ELSE <<>>)
         \o ItemHrefs(Tail(links))

\* get_item_links: an item reference is its href (resolved against the
\* parent of the catalog's own location)
get_item_links(fetched) ==
    IF fetched.err /= "" THEN fetched
    ELSE Only({ IF catalog_data.err /= "" THEN catalog_data
                ELSE Ok(ItemHrefs(catalog_data.val.links)) :
                catalog_data \in {GetItem(fetched.val)} })

\* the merge of what get_menu_items_from_file returned
MergeResult(acc, single) ==
    IF single.err /= "" THEN [err |-> single.err, stage |-> "extract", val |-> acc]
    ELSE Only({ [err |-> m.err, stage |-> "merge", val |-> m.val] :
                m \in {MergeStep(acc, single.val)} })

\* faulty variant: a value that is not a document is skipped and the loop goes on
LoopDataSkip(acc, d) ==
    IF d.err /= "" THEN [err |-> "", stage |-> "fetch", val |-> acc]
    ELSE Only({ MergeResult(acc, single) :
                single \in {get_menu_items_from_file(d.val)} })

\* the body of "for item in item_links" on the value download_from_s3 returned
LoopData(acc, d) ==
    IF d.err /= "" THEN [err |-> d.err, stage |-> "fetch", val |-> acc]
    ELSE Only({ MergeResult(acc, single) :
                single \in {get_menu_items_from_file(d.val)} })

\* one iteration of "for item in item_links" on what download_from_s3 did
LoopBody(acc, fetched) ==
    IF fetched.err /= "" THEN [err |-> fetched.err, stage |-> "fetch", val |-> acc]
    ELSE Only({ LoopData(acc, d) : d \in {GetItem(fetched.val)} })

-----------------------------------------------------------------------------
(* Documents in the object store *)

RunParams ==
    { <<>>,
      << <<gcm, << <<"A">>, <<"A">> >> >> >>,
      << <<gcm, << <<"A">>, <<"B">> >> >> >> }

RunScenarios ==
    { <<>>,
      << [id |-> <<"s", "s", "p", "1", "2", "6">>, years |-> <<2030>>] >>,
      << [id |-> <<"r", "c", "p", "4", "p", "5">>, years |-> <<2030>>],
         [id |-> <<"r", "c", "p", "4", ".", "5">>, years |-> <<2050>>] >> }

RunDisplayNames == { <<"T">>, <<"T", "{", "g", "c", "m", "}">> }

RunIndicatorIds == { <<"i", "g", "c", "m">>, <<"i", "{", "g", "c", "m", "}">> }

RunDocs ==
    { DocOf(<<"H", "W">>, ps, sc, dn, id, <<"p">>, <<>>, unknown) :
        ps \in RunParams, sc \in RunScenarios, dn \in RunDisplayNames,
        id \in RunIndicatorIds }

-----------------------------------------------------------------------------
(* create_menu_options *)

NoLast == [doc |-> NoDoc, err |-> "", stage |-> "none"]

Init ==
    /\ pc = "start"
    /\ item_links = <<>>
    /\ hazard_types = <<>>
    /\ indicator_options = <<>>
    /\ climate_model_options = <<>>
    /\ scenario_options = <<>>
    /\ processed = <<>>
    /\ last = NoLast
    /\ fetch_failed = FALSE
    /\ data = NoDoc
    /\ out = NotRun

\* item_links = get_item_links(catalog_url)
GetItemLinks ==
    /\ pc = "start"
    /\ \E outcome \in FetchOutcomes, catalog \in Catalogs :
          \E r \in {get_item_links(download_from_s3(outcome, catalog))} :
              /\ fetch_failed' = (outcome /= "ok")
              /\ pc' = IF r.err /= "" THEN "error" ELSE "loop"
              /\ item_links' = IF r.err /= "" THEN <<>> ELSE r.val
    /\ UNCHANGED <<hazard_types, indicator_options, climate_model_options,
                   scenario_options, processed, last, data, out>>

\* one iteration of the loop: download_from_s3(item), get_menu_items_from_file
\* and the four update_options calls
ProcessItem ==
    /\ pc = "loop"
    /\ item_links /= <<>>
    /\ \E outcome \in FetchOutcomes, d \in RunDocs :
          \E r \in {LoopBody(Lists(hazard_types, indicator_options,
                                    climate_model_options, scenario_options),
                              download_from_s3(outcome, d))} :
              /\ fetch_failed' = (fetch_failed \/ outcome /= "ok")
              /\ hazard_types' = r.val.hazard_types
              /\ indicator_options' = r.val.indicator_options
              /\ climate_model_options' = r.val.climate_model_options
              /\ scenario_options' = r.val.scenario_options
              /\ last' = [doc |-> d, err |-> r.err, stage |-> r.stage]
              /\ processed' = IF r.stage = "merge" /\ r.err = ""
                              THEN Append(processed, d) ELSE processed
              /\ pc' = IF r.err /= "" THEN "error" ELSE "loop"
              /\ item_links' = IF r.err /= "" THEN item_links ELSE Tail(item_links)
    /\ UNCHANGED <<data, out>>

\* the return of create_menu_options
Return ==
    /\ pc = "loop"
    /\ item_links = <<>>
    /\ pc' = "done"
    /\ UNCHANGED <<item_links, hazard_types, indicator_options, climate_model_options,
                   scenario_options, processed, last, fetch_failed, data, out>>

Next == GetItemLinks \/ ProcessItem \/ Return

Spec == Init /\ [][Next]_vars

-----------------------------------------------------------------------------
(* get_indicator_options on its own *)

InitExpand ==
    /\ pc = "start"
    /\ item_links = <<>>
    /\ hazard_types = <<>>
    /\ indicator_options = <<>>
    /\ climate_model_options = <<>>
    /\ scenario_options = <<>>
    /\ processed = <<>>
    /\ last = NoLast
    /\ fetch_failed = FALSE
    /\ data \in ExpandDocs
    /\ out = NotRun

Expand ==
    /\ out = NotRun
    /\ out' = get_indicator_options(data)
    /\ UNCHANGED <<data, pc, item_links, hazard_types, indicator_options,
                   climate_model_options, scenario_options, processed, last,
                   fetch_failed>>

NextExpand == Expand

SpecExpand == InitExpand /\ [][NextExpand]_vars

-----------------------------------------------------------------------------
(* Properties of get_indicator_options (checked under SpecExpand) *)

NoDupSeq(s) == \A i, j \in 1..Len(s) : i /= j => s[i] /= s[j]

Keys(params) == { params[i][1] : i \in 1..Len(params) }

RECURSIVE LenProduct(_, _)
LenProduct(params, j) ==
    IF j > Len(params) THEN 1 ELSE Len(params[j][2]) * LenProduct(params, j + 1)

\* the number of combinations of the cross-product
ProductSize(params) == LenProduct(params, 1)

\* combination number k (from 0) in row-major order: the last parameter
\* varies fastest
Combination(params, k) ==
    [j \in 1..Len(params) |->
        <<params[j][1],
          params[j][2][((k \div LenProduct(params, j + 1)) % Len(params[j][2])) + 1]>>]

Combinations(params) == 0..(ProductSize(params) - 1)

\* the names of the {name} fields of a template
Placeholders(t) ==
    { SubSeq(t, i + 1, j - 1) : <<i, j>> \in
        { ij \in (1..Len(t)) \X (1..Len(t)) :
            /\ ij[1] < ij[2]
            /\ t[ij[1]] = "{"
            /\ t[ij[2]] = "}"
            /\ \A m \in (ij[1] + 1)..(ij[2] - 1) : t[m] \notin {"{", "}"} } }

\* a template names a parameter the combination does not give
Unresolved(t, params) == \E n \in Placeholders(t) : n \notin Keys(params)

Ran == out /= NotRun

Returned == Ran /\ out.err = ""

\* the record the loop body builds for combination k
RecordOf(k) == IndicatorRecord(data, Combination(data.params, k)).val

FirstCombination(r) ==
    CHOOSE k \in Combinations(data.params) :
        /\ RecordOf(k) = r
        /\ \A m \in Combinations(data.params) : RecordOf(m) = r => k <= m

\* C5 as stated: get_indicator_options returns exactly one record per
\* combination of the cross-product, so as many records as the product of
\* the lengths of the params value lists, whatever the templates are.
C5_OnePerCombination ==
    Returned => Len(out.val) = ProductSize(data.params)

\* C5 as amended: get_indicator_options either raises KeyError on a
\* placeholder no parameter covers, or returns the records of the
\* combinations in row-major order with structural duplicates removed
\* (first occurrence kept).  The number of records is at most the product
\* of the lengths, equals it when the records of the combinations are
\* pairwise distinct, and is 1 when params is empty.
C5_DedupedCombinations ==
    Ran =>
      IF out.err = ""
      THEN /\ NoDupSeq(out.val)
           /\ \A k \in Combinations(data.params) : InSeq(RecordOf(k), out.val)
           /\ \A i \in 1..Len(out.val) :
                \E k \in Combinations(data.params) : out.val[i] = RecordOf(k)
           /\ \A i, j \in 1..Len(out.val) :
                i < j => FirstCombination(out.val[i]) < FirstCombination(out.val[j])
           /\ Len(out.val) <= ProductSize(data.params)
           /\ (\A k, m \in Combinations(data.params) : k /= m => RecordOf(k) /= RecordOf(m))
                => Len(out.val) = ProductSize(data.params)
           /\ data.params = <<>> => Len(out.val) = 1
      ELSE /\ out.err = "KeyError"
           /\ \/ Unresolved(data.indicator_id, data.params)
              \/ Unresolved(data.display_name, data.params)

\* C5 witness: a document whose four combinations give two distinct records
C5_Witness ==
    /\ Returned
    /\ ProductSize(data.params) = 4
    /\ Len(out.val) = 2

\* the identifier C6 describes for one combination
C6_Expected(param_dict) ==
    Format(Replace(data.indicator_id, <<"/">>, <<"_">>), param_dict).val
    \o (IF data.indicator_model_id /= <<>>
        THEN <<"_">> \o Replace(data.indicator_model_id, <<"/">>, <<"_">>)
        ELSE <<>>)
    \o (IF data.indicator_model_gcm \notin {unknown, <<"{", "g", "c", "m", "}">>}
        THEN <<"_">> \o data.indicator_model_gcm
        ELSE <<>>)

C7_UnresolvedNeverError ==
    (Ran /\ (\/ Unresolved(data.display_name, data.params)
             \/ Unresolved(data.indicator_id, data.params)
             \/ Unresolved(data.path, data.params)))
      => /\ out.err = ""
         /\ Len(out.val) >= 1
         /\ \A i \in 1..Len(out.val) :
              /\ \A n \in Placeholders(data.display_name) \ Keys(data.params) :
                    Contains(out.val[i].label, CustomDictMissing(n))
              /\ \A n \in Placeholders(data.indicator_id) \ Keys(data.params) :
                    Contains(out.val[i].value, CustomDictMissing(n))
              /\ \A n \in Placeholders(data.path) \ Keys(data.params) :
                    Contains(out.val[i].path, CustomDictMissing(n))

\* C9: every iteration of the per-key loop computes the same display_name,
\* so the emitted label of a combination is the one any single iteration
\* computes, whichever key comes last.
C9_PerKeyRedundant ==
    (Returned /\ Len(data.params) >= 2)
      => \A k \in Combinations(data.params) :
           \A n \in 1..Len(data.params) :
              RecordOf(k).label
                 = DisplayNameForKey(data, Combination(data.params, k),
                                     data.params[n][1]).val

-----------------------------------------------------------------------------
(* Properties of the merge run (checked under Spec) *)

Acc == Lists(hazard_types, indicator_options, climate_model_options, scenario_options)

ListNames ==
    {"hazard_types", "indicator_options", "climate_model_options", "scenario_options"}

\* a link array is named after the list its values point into
LinkNames == {"indicator_options", "climate_model_options", "scenario_options"}

\* the last loop iteration ran its four update_options calls to the end
Merged == last.stage = "merge" /\ last.err = ""

Singles(d) == get_menu_items_from_file(d).val

\* C1: after each merge step no link array of any record of any global list
\* holds the same value twice.
C1_NoDuplicateLinks ==
    Merged =>
      \A n \in ListNames : \A i \in 1..Len(Acc[n]) :
         \A f \in LinkNames \cap DOMAIN Acc[n][i] : NoDupSeq(Acc[n][i][f])

IsPrefix(s, t) == Len(s) <= Len(t) /\ SubSeq(t, 1, Len(s)) = s

\* every record of old is still in new at its place, with its fields, and
\* each of its link arrays is a prefix of what it is in new
Grows(old, new) ==
    /\ Len(old) <= Len(new)
    /\ \A i \in 1..Len(old) :
          /\ DOMAIN old[i] \subseteq DOMAIN new[i]
          /\ \A f \in DOMAIN old[i] :
                IF f \in LinkNames THEN IsPrefix(old[i][f], new[i][f])
                ELSE new[i][f] = old[i][f]

\* C2: link arrays only grow: a step removes no record from a global list,
\* no link array from a record and no value from a link array, and appends
\* new values at the end.
C2_LinksOnlyGrow ==
    [][/\ Grows(hazard_types, hazard_types')
       /\ Grows(indicator_options, indicator_options')
       /\ Grows(climate_model_options, climate_model_options')
       /\ Grows(scenario_options, scenario_options')]_vars

\* C2 witness: the second document has extended a link array of a record
\* the first document created
C2_Witness ==
    /\ Len(processed) = 2
    /\ Merged
    /\ Len(hazard_types[1].indicator_options)
          > Len(Singles(processed[1]).indicator_options)

RECURSIVE AllSingles(_, _)
AllSingles(n, docs) ==
    IF docs = <<>> THEN <<>> ELSE Singles(Head(docs))[n] \o AllSingles(n, Tail(docs))

\* the records of s whose label no earlier record of s has
RECURSIVE KeepFirst(_, _)
KeepFirst(s, i) ==
    IF i > Len(s) THEN <<>>
    ELSE (IF \E j \in 1..(i - 1) : s[j].label = s[i].label THEN <<>> ELSE <<s[i]>>)
         \o KeepFirst(s, i + 1)

\* a record without its link arrays
Base(rec) == [f \in DOMAIN rec \ LinkNames |-> rec[f]]

\* C3: merge identity is the label: a global list never holds two records
\* with one label, and after the documents merged so far it holds, in
\* first-seen order, the first-seen record of every label, with that
\* record's value, path and year_options.
C3_MergeByLabel ==
    /\ \A n \in ListNames : \A i, j \in 1..Len(Acc[n]) :
          i /= j => Acc[n][i].label /= Acc[n][j].label
    /\ pc /= "error" =>
          \A n \in ListNames :
             [i \in 1..Len(Acc[n]) |-> Base(Acc[n][i])]
                = KeepFirst(AllSingles(n, processed), 1)

\* C3 witness: the run has merged two scenarios with one label and different
\* values and years, and kept two indicators that differ in the label only
C3_Witness ==
    /\ pc = "done"
    /\ Len(processed) = 2
    /\ \E i, j \in 1..Len(AllSingles("scenario_options", processed)) :
          LET sc == AllSingles("scenario_options", processed)
          IN  /\ sc[i].label = sc[j].label
              /\ sc[i].value /= sc[j].value
              /\ sc[i].year_options /= sc[j].year_options
    /\ \E i, j \in 1..Len(indicator_options) :
          /\ indicator_options[i].label /= indicator_options[j].label
          /\ indicator_options[i].value = indicator_options[j].value
          /\ indicator_options[i].path = indicator_options[j].path

\* C4: the merge step of every document completes without error, and then
\* every record of each of its lists has, in the global record of its label,
\* link arrays holding every value of the document's source lists.
C4_LinkComplete ==
    last.stage = "merge" =>
      /\ last.err = ""
      /\ LET calls == MergeCalls(Singles(last.doc))
         IN  \A c \in 1..Len(calls) : \A r \in 1..Len(calls[c].single_list) :
               \A o \in 1..Len(calls[c].options_dicts) :
                 calls[c].options_dicts[o].list /= <<>> =>
                   \E g \in 1..Len(Acc[calls[c].main]) :
                      LET rec == Acc[calls[c].main][g]
                          name == calls[c].options_dicts[o].name
                      IN  /\ rec.label = calls[c].single_list[r].label
                          /\ name \in DOMAIN rec
                          /\ \A v \in 1..Len(calls[c].options_dicts[o].list) :
                                InSeq(calls[c].options_dicts[o].list[v].value, rec[name])

\* the lists after merging docs into acc, one merge step after the other
RECURSIVE MergeAll(_, _)
MergeAll(acc, docs) ==
    IF docs = <<>> THEN acc
    ELSE MergeAll(MergeStep(acc, Singles(Head(docs))).val, Tail(docs))

\* C8: a failed fetch of the catalog or of a document ends the run in an
\* error: it is not skipped, nothing is returned, and the lists hold only
\* what the documents merged before it gave.
C8_FetchFailureFatal ==
    fetch_failed =>
      /\ pc = "error"
      /\ last.stage \in {"none", "fetch"}
      /\ last.stage = "fetch" => last.err \in {"TypeError", "JSONDecodeError"}
      /\ Acc = MergeAll(Lists(<<>>, <<>>, <<>>, <<>>), processed)

\* C8 witness: a document fetch has failed after another document was merged
C8_Witness ==
    /\ fetch_failed
    /\ pc = "error"
    /\ last.stage = "fetch"
    /\ Len(processed) = 1
    /\ hazard_types /= <<>>

\* C10: after each merge step every value of a link array is the value of a
\* record of the global list the array points into.
C10_ReferentialIntegrity ==
    Merged =>
      \A n \in ListNames : \A i \in 1..Len(Acc[n]) :
         \A f \in LinkNames \cap DOMAIN Acc[n][i] :
            \A v \in 1..Len(Acc[n][i][f]) :
               \E g \in 1..Len(Acc[f]) : Acc[f][g].value = Acc[n][i][f][v]

====
